---- MODULE Spec2Model ----
(***************************************************************************)
(* Model of Nova/Resources/WakewordModels/conversion.py: the batch that    *)
(* converts a fixed list of ONNX files to Core ML files.                   *)
(*                                                                         *)
(* The script is one loop over `models`; each iteration prints a progress  *)
(* line, then loads, converts and saves inside a try block whose handler   *)
(* prints an error line.  The three library calls are external: load is    *)
(* decided by what is on disk, convert and save may succeed or raise.      *)
(***************************************************************************)
EXTENDS Integers, Sequences, FiniteSets, TLC

\* ---------------------------------------------------------------- bounds
\* How many times the script is started on the same working directory.
MaxRuns == 2

\* ------------------------------------------------------- program constants
\* conversion.py:11
models == <<"jarvis", "embedding_model", "melspectrogram">>

\* conversion.py:14
onnx_path(name) == name \o ".onnx"

\* conversion.py:15
mlmodel_path(name) == name \o ".mlmodel"

\* a call that also passes the input shape
ConvertConfig_WithShape ==
    [minimum_deployment_target |-> "iOS13",
     compute_units |-> "unset",
     inputs |-> "shape"]

\* conversion.py:24-27: the keyword arguments given to ct.convert.  Only the
\* deployment target is passed; "unset" marks an argument the call omits.
ConvertConfig ==
    [minimum_deployment_target |-> "iOS13",
     compute_units |-> "unset",
     inputs |-> "unset"]

\* ------------------------------------------------------------ file contents
Names == {models[k] : k \in 1..Len(models)}
Paths == {onnx_path(n) : n \in Names} \cup {mlmodel_path(n) : n \in Names}

Absent == <<"absent", "">>
Malformed == <<"garbage", "">>
Partial == <<"partial", "">>
Stale == <<"mlmodel", "old", "old">>
OnnxFile(g) == <<"onnx", g>>
Unbound == <<"unbound", "">>

\* what onnx.load(path) does with the file it finds (conversion.py:20)
LoadRaises(file) == file[1] # "onnx"
LoadError(file) ==
    IF file[1] = "absent" THEN "FileNotFoundError" ELSE "DecodeError"
LoadResult(file) == <<"ModelProto", file[2]>>

\* what ct.convert(onnx_model, ...) returns when it returns (conversion.py:24)
ConvertResult(model, cfg) ==
    <<"MLModel", model[2], cfg.minimum_deployment_target>>

\* what mlmodel.save(path) leaves on disk when it returns (conversion.py:30)
SavedFile(ml) == <<"mlmodel", ml[2], ml[3]>>

SourceStates(n) == {Absent, Malformed, OnnxFile(n)}
TargetStates == {Absent, Stale}

\* ------------------------------------------------------------------- state
VARIABLES
    fs,          \* the working directory: path -> file content
    fs0,         \* the working directory as it was when the run started
    run,         \* number of the current run
    i,           \* position of the loop in `models`
    pc,          \* statement the run is at
    onnx_model,  \* module-level variable onnx_model
    mlmodel,     \* module-level variable mlmodel
    e,           \* the exception being handled
    out,         \* standard output of the run, one record per print
    log          \* every print and library call of the run, in order

vars == <<fs, fs0, run, i, pc, onnx_model, mlmodel, e, out, log>>

\* the loop walking the list from its end
name_Reversed == models[Len(models) + 1 - i]

name == models[i]

Event(op, n, arg, ok) == [op |-> op, name |-> n, arg |-> arg, ok |-> ok]

\* conversion.py:16
ProgressLine(n) ==
    [kind |-> "progress", name |-> n, text |-> <<onnx_path(n), mlmodel_path(n)>>]
\* conversion.py:31
SuccessLine(n) ==
    [kind |-> "success", name |-> n, text |-> <<mlmodel_path(n)>>]
\* conversion.py:34
ErrorLine(n, exc) ==
    [kind |-> "error", name |-> n, text |-> <<exc>>]

Init ==
    /\ fs \in [Paths -> {Absent, Malformed, Stale} \cup {OnnxFile(n) : n \in Names}]
    /\ \A n \in Names :
          /\ fs[onnx_path(n)] \in SourceStates(n)
          /\ fs[mlmodel_path(n)] \in TargetStates
    /\ fs0 = fs
    /\ run = 1
    /\ i = 1
    /\ pc = "for"
    /\ onnx_model = Unbound
    /\ mlmodel = Unbound
    /\ e = Unbound
    /\ out = <<>>
    /\ log = <<>>

\* a loop that steps over every other name
NextName_Skip ==
    /\ i' = IF i + 2 > Len(models) THEN Len(models) + 1 ELSE i + 2
    /\ pc' = IF i + 2 > Len(models) THEN "done" ELSE "for"

\* a loop that stops before the last name
NextName_Early ==
    /\ i' = i + 1
    /\ pc' = IF i + 1 >= Len(models) THEN "done" ELSE "for"

\* conversion.py:13: the loop takes the next name, or ends after the last
NextName ==
    /\ i' = i + 1
    /\ pc' = IF i + 1 > Len(models) THEN "done" ELSE "for"

\* conversion.py:13-16
PrintProgress ==
    /\ pc = "for"
    /\ out' = Append(out, ProgressLine(name))
    /\ log' = Append(log, Event("progress", name, onnx_path(name), TRUE))
    /\ pc' = "load"
    /\ UNCHANGED <<fs, fs0, run, i, onnx_model, mlmodel, e>>

\* a load whose failure is passed over: the iteration goes on to convert
\* with whatever onnx_model holds
Load_Swallow ==
    /\ pc = "load"
    /\ LET file == fs[onnx_path(name)] IN
         IF LoadRaises(file)
         THEN /\ log' = Append(log, Event("load", name, onnx_path(name), FALSE))
              /\ UNCHANGED onnx_model
         ELSE /\ onnx_model' = LoadResult(file)
              /\ log' = Append(log, Event("load", name, onnx_path(name), TRUE))
    /\ pc' = "convert"
    /\ UNCHANGED <<fs, fs0, run, i, mlmodel, out, e>>

\* conversion.py:20
Load ==
    /\ pc = "load"
    /\ LET file == fs[onnx_path(name)] IN
         IF LoadRaises(file)
         THEN /\ e' = LoadError(file)
              /\ pc' = "except"
              /\ log' = Append(log, Event("load", name, onnx_path(name), FALSE))
              /\ UNCHANGED onnx_model
         ELSE /\ onnx_model' = LoadResult(file)
              /\ pc' = "convert"
              /\ log' = Append(log, Event("load", name, onnx_path(name), TRUE))
              /\ UNCHANGED e
    /\ UNCHANGED <<fs, fs0, run, i, mlmodel, out>>

\* conversion.py:24-27
Convert ==
    /\ pc = "convert"
    /\ \E ok \in BOOLEAN :
         /\ log' = Append(log, Event("convert", name, ConvertConfig, ok))
         /\ IF ok
            THEN /\ mlmodel' = ConvertResult(onnx_model, ConvertConfig)
                 /\ pc' = "save"
                 /\ UNCHANGED e
            ELSE /\ e' = "ConversionError"
                 /\ pc' = "except"
                 /\ UNCHANGED mlmodel
    /\ UNCHANGED <<fs, fs0, run, i, onnx_model, out>>

\* a save that keeps a target that is already there
Save_KeepExisting ==
    /\ pc = "save"
    /\ \E res \in {"ok", "raise", "raise_partial"} :
         /\ log' = Append(log, Event("save", name, mlmodel_path(name), res = "ok"))
         /\ fs' = CASE res = "ok" /\ fs[mlmodel_path(name)] = Absent ->
                         [fs EXCEPT ![mlmodel_path(name)] = SavedFile(mlmodel)]
                    [] res = "ok" /\ fs[mlmodel_path(name)] # Absent -> fs
                    [] res = "raise" -> fs
                    [] res = "raise_partial" -> [fs EXCEPT ![mlmodel_path(name)] = Partial]
         /\ IF res = "ok"
            THEN pc' = "saved" /\ UNCHANGED e
            ELSE pc' = "except" /\ e' = "SaveError"
    /\ UNCHANGED <<fs0, run, i, onnx_model, mlmodel, out>>

\* a save that writes every model to the first name's target
Save_FirstTarget ==
    /\ pc = "save"
    /\ \E res \in {"ok", "raise", "raise_partial"} :
         /\ log' = Append(log, Event("save", name, mlmodel_path(models[1]), res = "ok"))
         /\ fs' = CASE res = "ok" -> [fs EXCEPT ![mlmodel_path(models[1])] = SavedFile(mlmodel)]
                    [] res = "raise" -> fs
                    [] res = "raise_partial" -> [fs EXCEPT ![mlmodel_path(models[1])] = Partial]
         /\ IF res = "ok"
            THEN pc' = "saved" /\ UNCHANGED e
            ELSE pc' = "except" /\ e' = "SaveError"
    /\ UNCHANGED <<fs0, run, i, onnx_model, mlmodel, out>>

\* conversion.py:30.  A save that raises leaves the target as it was or
\* partly written.
Save ==
    /\ pc = "save"
    /\ \E res \in {"ok", "raise", "raise_partial"} :
         /\ log' = Append(log, Event("save", name, mlmodel_path(name), res = "ok"))
         /\ fs' = CASE res = "ok" -> [fs EXCEPT ![mlmodel_path(name)] = SavedFile(mlmodel)]
                    [] res = "raise" -> fs
                    [] res = "raise_partial" -> [fs EXCEPT ![mlmodel_path(name)] = Partial]
         /\ IF res = "ok"
            THEN pc' = "saved" /\ UNCHANGED e
            ELSE pc' = "except" /\ e' = "SaveError"
    /\ UNCHANGED <<fs0, run, i, onnx_model, mlmodel, out>>

\* an iteration that ends without its success line
PrintSuccess_Silent ==
    /\ pc = "saved"
    /\ log' = Append(log, Event("success", name, mlmodel_path(name), TRUE))
    /\ NextName
    /\ UNCHANGED <<fs, fs0, run, onnx_model, mlmodel, e, out>>

\* conversion.py:31
PrintSuccess ==
    /\ pc = "saved"
    /\ out' = Append(out, SuccessLine(name))
    /\ log' = Append(log, Event("success", name, mlmodel_path(name), TRUE))
    /\ NextName
    /\ UNCHANGED <<fs, fs0, run, onnx_model, mlmodel, e>>

\* a handler that ends the run
Except_Abort ==
    /\ pc = "except"
    /\ out' = Append(out, ErrorLine(name, e))
    /\ log' = Append(log, Event("error", name, e, FALSE))
    /\ e' = Unbound
    /\ pc' = "done"
    /\ UNCHANGED <<fs, fs0, run, i, onnx_model, mlmodel>>

\* a handler that tries the failed model once more
Except_Retry ==
    /\ pc = "except"
    /\ out' = Append(out, ErrorLine(name, e))
    /\ log' = Append(log, Event("error", name, e, FALSE))
    /\ e' = Unbound
    /\ IF \E p \in 1..Len(log) : log[p].op = "error" /\ log[p].name = name
       THEN NextName
       ELSE pc' = "load" /\ UNCHANGED i
    /\ UNCHANGED <<fs, fs0, run, onnx_model, mlmodel>>

\* conversion.py:33-35
Except ==
    /\ pc = "except"
    /\ out' = Append(out, ErrorLine(name, e))
    /\ log' = Append(log, Event("error", name, e, FALSE))
    /\ e' = Unbound
    /\ NextName
    /\ UNCHANGED <<fs, fs0, run, onnx_model, mlmodel>>

\* The script is started again in the directory the previous run left.
Rerun ==
    /\ pc = "done"
    /\ run < MaxRuns
    /\ run' = run + 1
    /\ fs0' = fs
    /\ i' = 1
    /\ pc' = "for"
    /\ onnx_model' = Unbound
    /\ mlmodel' = Unbound
    /\ e' = Unbound
    /\ out' = <<>>
    /\ log' = <<>>
    /\ UNCHANGED fs

Next ==
    \/ PrintProgress
    \/ Load
    \/ Convert
    \/ Save
    \/ PrintSuccess
    \/ Except
    \/ Rerun

Spec == Init /\ [][Next]_vars

\* Every library call returns or raises and the interpreter keeps running.
FairSpec == Spec /\ WF_vars(Next)

TypeOK ==
    /\ i \in 1..(Len(models) + 1)
    /\ pc \in {"for", "load", "convert", "save", "saved", "except", "done"}
    /\ run \in 1..MaxRuns

\* ------------------------------------------------------------ vocabulary
Pos(n) == CHOOSE k \in 1..Len(models) : models[k] = n
\* the iteration of name n is over in the current run
Finished(n) == Pos(n) < i
Calls(n, op) == {p \in 1..Len(log) : log[p].name = n /\ log[p].op = op}
Raised(p) == log[p].op \in {"load", "convert", "save"} /\ ~log[p].ok
Returned(n, op) == \E p \in Calls(n, op) : log[p].ok
Printed(line) == \E p \in 1..Len(out) : out[p] = line
SourceOf(n) == fs[n \o ".onnx"]
TargetOf(n) == fs[n \o ".mlmodel"]
SourceBad(n) == SourceOf(n) \in {<<"absent", "">>, <<"garbage", "">>}
\* what str(e) is for the call logged at position p
FailureText(p) ==
    CASE log[p].op = "load" ->
            IF SourceOf(log[p].name) = <<"absent", "">>
            THEN "FileNotFoundError" ELSE "DecodeError"
      [] log[p].op = "convert" -> "ConversionError"
      [] log[p].op = "save" -> "SaveError"
\* the file a successful iteration of n leaves
Fresh(n) == <<"mlmodel", n, "iOS13">>

\* ---------------------------------------------------------------- C1
\* C1: every failure raised by the load, convert or save call of a model is
\* caught in that iteration: the handler runs next, it prints an error line
\* carrying that model's name and the failure's description, and after it
\* the loop is at the next name of the list (or, after the last name, done);
\* the run never ends with names left unattempted.
C1_FailureIsolated ==
    /\ \A p \in 1..Len(log) : Raised(p) =>
          LET n == log[p].name IN
          IF p = Len(log)
          THEN pc = "except" /\ i = Pos(n) /\ e = FailureText(p)
          ELSE /\ log[p + 1].op = "error" /\ log[p + 1].name = n
               /\ Printed([kind |-> "error", name |-> n, text |-> <<FailureText(p)>>])
               /\ IF p + 1 = Len(log)
                  THEN /\ i = Pos(n) + 1
                       /\ pc = IF Pos(n) = Len(models) THEN "done" ELSE "for"
                  ELSE /\ Pos(n) < Len(models)
                       /\ log[p + 2].op = "progress"
                       /\ log[p + 2].name = models[Pos(n) + 1]
    /\ pc = "done" => \A k \in 1..Len(models) : Calls(models[k], "progress") # {}

C1_Witness ==
    /\ pc = "done"
    /\ \E p \in 1..Len(log) : Raised(p) /\ log[p].op = "load" /\ log[p].name = models[1]
    /\ \E p \in 1..Len(log) : Raised(p) /\ log[p].op = "convert" /\ log[p].name = models[2]
    /\ \E p \in 1..Len(log) : Raised(p) /\ log[p].op = "save" /\ log[p].name = models[3]
    /\ Len(out) = 6

\* ---------------------------------------------------------------- C2
\* C2: for every name whose source file is missing or malformed, the target
\* file stays as it was when the run started; once that name's iteration is
\* over an error line naming it (with the load failure's text) has been
\* printed, and when the run is done every later name has its progress
\* line.  With the first source valid and converted and the others absent,
\* and no target present at the start, the first target is the one file
\* created.
Created == {n \in Names : fs0[n \o ".mlmodel"] = <<"absent", "">>
                           /\ TargetOf(n) # <<"absent", "">>}

C3_ValidSourceConverted ==
    pc = "done" =>
        \A n \in Names : ~SourceBad(n) =>
            /\ TargetOf(n) = Fresh(n)
            /\ Printed([kind |-> "success", name |-> n, text |-> <<n \o ".mlmodel">>])

\* C3 amended: once the iteration of a name is over, if its load, convert
\* and save calls all returned, the target holds the conversion of that
\* source and the success line naming it and the target path is printed.
C3_StepsReturnedConverted ==
    \A n \in Names :
        (Finished(n) /\ Returned(n, "load") /\ Returned(n, "convert")
            /\ Returned(n, "save")) =>
            /\ SourceOf(n) = <<"onnx", n>>
            /\ TargetOf(n) = Fresh(n)
            /\ Printed([kind |-> "success", name |-> n, text |-> <<n \o ".mlmodel">>])

C3_Witness ==
    /\ pc = "done"
    /\ \A n \in Names : Returned(n, "save") /\ TargetOf(n) = Fresh(n)
    /\ out[6] = [kind |-> "success", name |-> models[3],
                 text |-> <<models[3] \o ".mlmodel">>]

\* ---------------------------------------------------------------- C4
\* C4: the names carried by the printed lines are the names of the list in
\* list order, each name's progress line directly followed by its outcome
\* line, whichever items succeed or fail.
C4_ListOrder ==
    /\ \A p \in 1..Len(out) : out[p].name = models[(p + 1) \div 2]
    /\ pc = "done" =>
          [p \in 1..Len(out) |-> out[p].name]
             = [p \in 1..(2 * Len(models)) |-> models[(p + 1) \div 2]]

C4_Witness ==
    /\ pc = "done"
    /\ out[2].kind = "error"
    /\ out[4].kind = "success"
    /\ out[6].kind = "error"
    /\ [p \in 1..Len(out) |-> out[p].name]
          = <<"jarvis", "jarvis", "embedding_model", "embedding_model",
              "melspectrogram", "melspectrogram">>

\* ---------------------------------------------------------------- C5
\* C5: every run ends, and at its end the output is, for each name of the
\* list in turn, one progress line followed by one outcome line (success or
\* error), and nothing else.
OutputComplete ==
    /\ Len(out) = 2 * Len(models)
    /\ \A k \in 1..Len(models) :
          /\ out[2 * k - 1].kind = "progress" /\ out[2 * k - 1].name = models[k]
          /\ out[2 * k].kind \in {"success", "error"} /\ out[2 * k].name = models[k]
          /\ Cardinality({p \in 1..Len(out) : out[p].name = models[k]
                              /\ out[p].kind = "progress"}) = 1
          /\ Cardinality({p \in 1..Len(out) : out[p].name = models[k]
                              /\ out[p].kind # "progress"}) = 1

C5_FullPass ==
    /\ (pc # "done") ~> (pc = "done")
    /\ [](pc = "done" => OutputComplete)

C5_Witness ==
    /\ pc = "done"
    /\ run = MaxRuns
    /\ OutputComplete
    /\ out[2].kind = "success"
    /\ out[4].kind = "error"

\* ---------------------------------------------------------------- C6
\* C6: the events of a run are grouped by item in list order, and inside an
\* item they come in the order progress, load, convert, save, outcome; the
\* event before the progress line of an item is the outcome line of the
\* item before it, so no two items are in progress at once.
Rank(op) ==
    CASE op = "progress" -> 0
      [] op = "load" -> 1
      [] op = "convert" -> 2
      [] op = "save" -> 3
      [] op \in {"success", "error"} -> 4

C6_Sequential ==
    /\ \A p \in 1..Len(log) : \A q \in (p + 1)..Len(log) :
          \/ Pos(log[p].name) < Pos(log[q].name)
          \/ log[p].name = log[q].name /\ Rank(log[p].op) < Rank(log[q].op)
    /\ \A q \in 1..Len(log) : log[q].op = "progress" =>
          IF q = 1 THEN log[q].name = models[1]
          ELSE /\ Rank(log[q - 1].op) = 4
               /\ Pos(log[q].name) = Pos(log[q - 1].name) + 1
    /\ \A q \in 1..Len(log) : log[q].op # "progress" =>
          q > 1 /\ log[q - 1].name = log[q].name

C6_Witness ==
    /\ pc = "load"
    /\ i = 2
    /\ Len(log) = 6
    /\ log[4].op = "save" /\ log[4].ok
    /\ log[5].op = "success" /\ log[5].name = models[1]
    /\ log[6].op = "progress" /\ log[6].name = models[2]

\* ---------------------------------------------------------------- C7
\* C7: when the target of a name exists at the start of a run and the
\* iteration of that name succeeds (load, convert and save return), the
\* target is replaced by the fresh conversion, the success line is printed
\* and no error line for that name is; the file and the line are those of
\* a run that started without the target.
C7_Overwrite ==
    \A n \in Names :
        (Finished(n) /\ Returned(n, "load") /\ Returned(n, "convert")
            /\ Returned(n, "save")) =>
            /\ TargetOf(n) = Fresh(n)
            /\ out[2 * Pos(n)] = [kind |-> "success", name |-> n,
                                  text |-> <<n \o ".mlmodel">>]
            /\ \A p \in 1..Len(out) : ~(out[p].kind = "error" /\ out[p].name = n)

C7_Witness ==
    /\ run = 2
    /\ pc = "done"
    /\ fs0[models[1] \o ".mlmodel"] = Fresh(models[1])
    /\ fs0[models[2] \o ".mlmodel"] = <<"mlmodel", "old", "old">>
    /\ fs0[models[3] \o ".mlmodel"] = <<"partial", "">>
    /\ \A n \in Names : Returned(n, "save") /\ TargetOf(n) = Fresh(n)

\* ---------------------------------------------------------------- C8
\* C8 as stated: every conversion call is given the deployment target, the
\* compute units "ALL" and no input shape.
C8_ConfigWithComputeUnits ==
    \A p \in 1..Len(log) : log[p].op = "convert" =>
        log[p].arg = [minimum_deployment_target |-> "iOS13",
                      compute_units |-> "ALL",
                      inputs |-> "unset"]

\* C8 amended: every conversion call of a run is given the same arguments
\* whatever the model: the deployment target iOS13 and nothing else, the
\* compute units and the input shape being left out of the call.
C8_ConfigFixed ==
    \A p \in 1..Len(log) : log[p].op = "convert" =>
        log[p].arg = [minimum_deployment_target |-> "iOS13",
                      compute_units |-> "unset",
                      inputs |-> "unset"]

C8_Witness ==
    /\ Cardinality({log[p].name : p \in {q \in 1..Len(log) : log[q].op = "convert"}}) = 3
    /\ \E p \in 1..Len(log) : log[p].op = "convert" /\ ~log[p].ok
    /\ \E p \in 1..Len(log) : log[p].op = "convert" /\ log[p].ok

\* ---------------------------------------------------------------- C9
\* C9: in one run each of load, convert and save is called at most once per
\* name; after a load that raised, convert and save are not called for that
\* name, and after a convert that raised, save is not.
C9_NoRetry ==
    \A n \in Names :
        /\ \A op \in {"load", "convert", "save"} : Cardinality(Calls(n, op)) <= 1
        /\ (\E p \in Calls(n, "load") : ~log[p].ok) =>
               Calls(n, "convert") = {} /\ Calls(n, "save") = {}
        /\ (\E p \in Calls(n, "convert") : ~log[p].ok) => Calls(n, "save") = {}
        /\ Calls(n, "convert") # {} => Returned(n, "load")
        /\ Calls(n, "save") # {} => Returned(n, "convert")

C9_Witness ==
    /\ pc = "done"
    /\ Calls(models[1], "load") # {} /\ ~Returned(models[1], "load")
    /\ Calls(models[2], "convert") # {} /\ ~Returned(models[2], "convert")
    /\ Calls(models[3], "save") # {} /\ ~Returned(models[3], "save")
    /\ Len(log) = 3 + 4 + 5

\* ---------------------------------------------------------------- C10
\* C10: a step changes no file other than the target of the name the loop
\* is at, and only the save call changes that; no source file ever differs
\* from what it was at the start of the run; every load reads the source
\* path of its own name and every save writes the target path of its own.
C10_Frame ==
    /\ [][\A p \in DOMAIN fs : fs'[p] # fs[p] =>
             pc = "save" /\ p = models[i] \o ".mlmodel"]_vars
    /\ [](\A n \in Names : fs[n \o ".onnx"] = fs0[n \o ".onnx"])
    /\ [](\A p \in 1..Len(log) :
             /\ log[p].op = "load" => log[p].arg = log[p].name \o ".onnx"
             /\ log[p].op = "save" => log[p].arg = log[p].name \o ".mlmodel")

C10_Witness ==
    /\ pc = "saved"
    /\ i = 2
    /\ TargetOf(models[2]) = Fresh(models[2])
    /\ fs0[models[2] \o ".mlmodel"] = <<"absent", "">>
    /\ TargetOf(models[1]) = fs0[models[1] \o ".mlmodel"]
    /\ TargetOf(models[3]) = fs0[models[3] \o ".mlmodel"]
    /\ Calls(models[1], "load") # {}
====
